---- MODULE Spec2Model ----
(***************************************************************************)
(* Model of the exam upload / validation / confirmation pipeline of the    *)
(* deneme-analiz backend:                                                  *)
(*   - ValidationService (app/services/validation_service.py), a field by  *)
(*     field comparison of the Claude extraction with the local parser's   *)
(*     extraction, modelled as operators over dictionaries;                *)
(*   - ExamService.process_exam_pdf, the confirm_exam route and the        *)
(*     cleanup_unconfirmed_exams job, modelled as actions over the exams   *)
(*     table, the normalized tables and the PDF directory.                 *)
(*                                                                         *)
(* Numbers are fixed point: the integer n stands for n / Scale.  Python    *)
(* dictionaries are records whose fields carry a tag t: "absent" (no such  *)
(* key), "none" (key bound to None), "num", "badstr" (a string float()     *)
(* rejects) or "str".                                                      *)
(***************************************************************************)
EXTENDS Integers, Sequences, FiniteSets, TLC

VARIABLES
    claude_data,   \* validate(): first argument (Claude extraction)
    local_data,    \* validate(): second argument (local parser extraction)
    outcome,       \* validate(): "none" before the call, then what the call did
    exams,         \* exams table: id -> row
    rows,          \* normalized tables keyed by exam_id
    students,      \* students table: set of <<name, school>>
    files,         \* PDF files present under PDF_STORAGE_PATH (by exam id)
    nextId,        \* next fresh exam id (uuid4 in the code)
    now,           \* wall clock, in hours
    req,           \* confirm_exam requests in flight: slot -> request state
    sweep,         \* cleanup_unconfirmed_exams job state
    lastUpload,    \* what the last upload_exam_pdf request did
    arg1,          \* _numeric_match(): val1
    arg2,          \* _numeric_match(): val2
    tolerance,     \* _numeric_match(): tolerance, in percent
    match,         \* _numeric_match(): whether it was called, and what it returned
    self_issues,   \* self.issues of each ValidationService instance
    calls,         \* validate() calls of the threads: thread -> call state
    outcomes,      \* learning_outcomes table: id -> row
    history,       \* outcome_merge_history table, in insertion order
    merge_last,    \* what the last perform_merge / undo_merge call returned
    premerge,      \* learning_outcomes as the last perform_merge call found it
    plan_days,     \* study_plan_days table: id -> row
    plan_items,    \* study_plan_items table: id -> row
    plan_last,     \* what the last update_item_completion call returned
    plan_clock,    \* datetime.utcnow() of the study plan requests
    resources,     \* resources table, in insertion order: id -> row
    res_links,     \* recommendation_resources table: <<recommendation_id, resource_id>>
    blacklist,     \* resource_blacklist table: the urls
    res_last,      \* what the last ResourceService call returned or raised
    recs,          \* recommendations table of the student: id -> row
    rec_last       \* what the last RecommendationService call did

vars == <<claude_data, local_data, outcome, exams, rows, students, files,
          nextId, now, req, sweep, lastUpload, arg1, arg2, tolerance, match,
          self_issues, calls, outcomes, history, merge_last, premerge,
          plan_days, plan_items, plan_last, plan_clock,
          resources, res_links, blacklist, res_last, recs, rec_last>>

nvars == <<arg1, arg2, tolerance, match>>
svars == <<self_issues, calls>>
\* the tables of LearningOutcomeCleanupService
mvars == <<outcomes, history, merge_last, premerge>>
\* the tables of the services outside the upload pipeline
\* the tables of StudyPlanService
pvars == <<plan_days, plan_items, plan_last, plan_clock>>
\* the tables of ResourceService
rvars == <<resources, res_links, blacklist, res_last>>
\* the table of RecommendationService
cvars == <<recs, rec_last>>
xvars == <<mvars, pvars, rvars, cvars>>
vvars == <<claude_data, local_data, outcome, nvars, svars, xvars>>
dbvars == <<exams, rows, students, files, nextId, now, req, sweep, lastUpload, xvars>>
\* the upload pipeline and the validation engine
corevars == <<claude_data, local_data, outcome, nvars, svars,
              exams, rows, students, files, nextId, now, req, sweep, lastUpload>>

----------------------------------------------------------------------------
(* Values *)

\* fixed-point scale: a multiple of 4 (wrong / 4 is exact) and of 100 (0.01)
Scale == 4 * 250

Absent == [t |-> "absent", v |-> 0, s |-> <<>>]
NoneV == [t |-> "none", v |-> 0, s |-> <<>>]
BadStr == [t |-> "badstr", v |-> 0, s |-> <<>>]
Num(n) == [t |-> "num", v |-> n, s |-> <<>>]
Str(chars) == [t |-> "str", v |-> 0, s |-> chars]

\* whole number k as a fixed-point value
Whole(k) == Num(k * Scale)

Abs(x) == IF x < 0 THEN -x ELSE x
Max(a, b) == IF a >= b THEN a ELSE b

\* dict.get(key): an absent key reads as None
Get(x) == IF x.t = "absent" THEN NoneV ELSE x
\* dict.get(key, ""): an absent key reads as the empty string
GetOrEmpty(x) == IF x.t = "absent" THEN Str(<<>>) ELSE x
\* Python truthiness of a field value
Truthy(x) ==
    CASE x.t = "absent" -> FALSE
      [] x.t = "none" -> FALSE
      [] x.t = "str" -> x.s # <<>>
      [] x.t = "badstr" -> TRUE
      [] x.t = "num" -> x.v # 0

----------------------------------------------------------------------------
(* ValidationService *)

TolerancePct == 10
NetTolerancePct == 5
NameThresholdPct == 80
SchoolThresholdPct == 70

\* str.lower() on the characters the records use
LowerChar(c) ==
    CASE c = "A" -> "a"
      [] c = "L" -> "l"
      [] c = "I" -> "i"
      [] c = "C" -> "c"
      [] OTHER -> c
Lower(s) == [i \in 1..Len(s) |-> LowerChar(s[i])]

\* str.strip(): drop leading and trailing blanks
RECURSIVE LStrip(_)
LStrip(s) == IF s # <<>> /\ Head(s) = " " THEN LStrip(Tail(s)) ELSE s
RECURSIVE RStrip(_)
RStrip(s) ==
    IF s # <<>> /\ s[Len(s)] = " " THEN RStrip(SubSeq(s, 1, Len(s) - 1)) ELSE s
Strip(s) == RStrip(LStrip(s))

\* a in b, for strings
IsSubstring(a, b) ==
    \E i \in 0..(Len(b) - Len(a)) : SubSeq(b, i + 1, i + Len(a)) = a

\* sum(1 for c in s1 if c in s2)
CommonChars(s1, s2) ==
    Cardinality({i \in 1..Len(s1) : \E j \in 1..Len(s2) : s2[j] = s1[i]})

\* _fuzzy_match holding every pair to the default threshold of 0.8
FuzzyMatchDefaultThreshold(str1, str2, thresholdPct) ==
    IF ~Truthy(str1) \/ ~Truthy(str2) THEN FALSE
    ELSE LET s1 == Strip(Lower(str1.s))
             s2 == Strip(Lower(str2.s))
         IN  IF s1 = s2 THEN TRUE
             ELSE IF Len(s1) = 0 \/ Len(s2) = 0 THEN FALSE
             ELSE IF IsSubstring(s1, s2) \/ IsSubstring(s2, s1) THEN TRUE
             ELSE CommonChars(s1, s2) * 100 >= NameThresholdPct * Max(Len(s1), Len(s2))

\* _fuzzy_match(str1, str2, threshold); thresholdPct is the threshold * 100
FuzzyMatch(str1, str2, thresholdPct) ==
    IF ~Truthy(str1) \/ ~Truthy(str2) THEN FALSE
    ELSE LET s1 == Strip(Lower(str1.s))
             s2 == Strip(Lower(str2.s))
         IN  IF s1 = s2 THEN TRUE
             ELSE IF Len(s1) = 0 \/ Len(s2) = 0 THEN FALSE
             ELSE IF IsSubstring(s1, s2) \/ IsSubstring(s2, s1) THEN TRUE
             ELSE CommonChars(s1, s2) * 100 >= thresholdPct * Max(Len(s1), Len(s2))

\* _numeric_match measuring the difference against val1 alone
NumericMatchRelFirst(val1, val2, tolPct) ==
    IF val1.t # "num" \/ val2.t # "num" THEN FALSE
    ELSE LET v1 == val1.v
             v2 == val2.v
         IN  IF v1 = v2 THEN TRUE
             ELSE IF v1 = 0 THEN Abs(v1 - v2) * 100 < Scale
             ELSE Abs(v1 - v2) * 100 <= tolPct * Abs(v1)

\* _numeric_match opening with the guard of _fuzzy_match ("if not val1 or
\* not val2: return False")
NumericMatchFalsyGuard(val1, val2, tolPct) ==
    IF val1.t # "num" \/ val2.t # "num" THEN FALSE
    ELSE LET v1 == val1.v
             v2 == val2.v
             sum == Abs(v1) + Abs(v2)
         IN  IF v1 = 0 \/ v2 = 0 THEN FALSE
             ELSE IF v1 = v2 THEN TRUE
             ELSE Abs(v1 - v2) * 2 * 100 <= tolPct * sum

\* _numeric_match dividing by the sum of the magnitudes, not by their mean
NumericMatchSumNotAvg(val1, val2, tolPct) ==
    IF val1.t # "num" \/ val2.t # "num" THEN FALSE
    ELSE LET v1 == val1.v
             v2 == val2.v
             sum == Abs(v1) + Abs(v2)
         IN  IF v1 = v2 THEN TRUE
             ELSE IF sum = 0 THEN Abs(v1 - v2) * 100 < Scale
             ELSE Abs(v1 - v2) * 100 <= tolPct * sum

\* _numeric_match with "rel_diff < tolerance"
NumericMatchStrict(val1, val2, tolPct) ==
    IF val1.t # "num" \/ val2.t # "num" THEN FALSE
    ELSE LET v1 == val1.v
             v2 == val2.v
             sum == Abs(v1) + Abs(v2)
         IN  IF v1 = v2 THEN TRUE
             ELSE IF sum = 0 THEN Abs(v1 - v2) * 100 < Scale
             ELSE Abs(v1 - v2) * 2 * 100 < tolPct * sum

\* _numeric_match(val1, val2, tolerance); tolPct is the tolerance * 100.
\* float() raises on None and on a malformed string; the except clause turns
\* that into False.
NumericMatch(val1, val2, tolPct) ==
    IF val1.t # "num" \/ val2.t # "num" THEN FALSE
    ELSE LET v1 == val1.v
             v2 == val2.v
             sum == Abs(v1) + Abs(v2)
         IN  IF v1 = v2 THEN TRUE
             ELSE IF sum = 0 THEN Abs(v1 - v2) * 100 < Scale
             ELSE Abs(v1 - v2) * 2 * 100 <= tolPct * sum

Issue(field, cv, lv, severity) ==
    [field |-> field, claude_value |-> cv, local_value |-> lv, severity |-> severity]

\* _validate_student_info
ValidateStudentInfo(claude_student, local_student) ==
    IF ~Truthy(local_student.name) /\ ~Truthy(local_student.school) THEN <<>>
    ELSE
      (IF Truthy(local_student.name)
            /\ ~FuzzyMatch(GetOrEmpty(claude_student.name), local_student.name,
                           NameThresholdPct)
       THEN <<Issue(<<"student", "name">>, Get(claude_student.name),
                    local_student.name, "warning")>>
       ELSE <<>>)
      \o
      (IF Truthy(local_student.school)
            /\ ~FuzzyMatch(GetOrEmpty(claude_student.school), local_student.school,
                           SchoolThresholdPct)
       THEN <<Issue(<<"student", "school">>, Get(claude_student.school),
                    local_student.school, "info")>>
       ELSE <<>>)

OverallFields ==
    <<"total_questions", "total_correct", "total_wrong", "total_blank", "net_score">>

\* "if not local_scores": the dictionary has no key at all
EmptyScores(scores) == \A i \in 1..Len(OverallFields) : scores[OverallFields[i]].t = "absent"

\* the severity line with "error" kept for total_questions alone
OverallSeverityQuestionsOnly(field) ==
    IF field = "total_questions" THEN "error" ELSE "warning"

\* severity = "error" if field in ["total_questions", "total_correct"] else "warning"
OverallSeverity(field) ==
    IF field \in {"total_questions", "total_correct"} THEN "error" ELSE "warning"

\* the loop over numeric_fields of _validate_overall_scores, from field i on
RECURSIVE OverallLoop(_, _, _)
OverallLoop(claude_scores, local_scores, i) ==
    IF i > Len(OverallFields) THEN <<>>
    ELSE LET field == OverallFields[i]
             claude_val == Get(claude_scores[field])
             local_val == Get(local_scores[field])
             here == IF local_val.t # "none" /\ claude_val.t # "none"
                        /\ ~NumericMatch(claude_val, local_val, TolerancePct)
                     THEN <<Issue(<<"overall", field>>, claude_val, local_val,
                                  OverallSeverity(field))>>
                     ELSE <<>>
         IN  here \o OverallLoop(claude_scores, local_scores, i + 1)

\* all(k in claude_scores for k in ["total_correct", "total_wrong", "net_score"])
HasNetKeys(claude_scores) ==
    /\ claude_scores.total_correct.t # "absent"
    /\ claude_scores.total_wrong.t # "absent"
    /\ claude_scores.net_score.t # "absent"

\* expected_net = total_correct - (total_wrong / 4): a TypeError unless both
\* operands are numbers
NetRaises(claude_scores) ==
    claude_scores.total_correct.t # "num" \/ claude_scores.total_wrong.t # "num"

\* expected_net without the division by 4
ExpectedNetNoQuarter(claude_scores) ==
    Num(claude_scores.total_correct.v - claude_scores.total_wrong.v)

ExpectedNet(claude_scores) ==
    Num(claude_scores.total_correct.v - (claude_scores.total_wrong.v \div 4))

\* the net score calculation check of _validate_overall_scores
NetCheck(claude_scores) ==
    IF HasNetKeys(claude_scores)
          /\ ~NumericMatch(ExpectedNet(claude_scores), claude_scores.net_score,
                           NetTolerancePct)
    THEN <<Issue(<<"overall", "net_calculation">>, claude_scores.net_score,
                 ExpectedNet(claude_scores), "error")>>
    ELSE <<>>

\* _validate_overall_scores
ValidateOverallScores(claude_scores, local_scores) ==
    IF EmptyScores(local_scores) THEN <<>>
    ELSE OverallLoop(claude_scores, local_scores, 1) \o NetCheck(claude_scores)

\* _validate_overall_scores raises instead of returning
OverallRaises(claude_scores, local_scores) ==
    /\ ~EmptyScores(local_scores)
    /\ HasNetKeys(claude_scores)
    /\ NetRaises(claude_scores)

SubjectFields == <<"total_questions", "correct", "wrong", "blank", "net_score">>

\* local_by_name[name]: the last local subject of that name
LocalByName(local_subjects, name) ==
    LET idx == {j \in 1..Len(local_subjects) : local_subjects[j].subject_name = name}
    IN  local_subjects[CHOOSE j \in idx : \A k \in idx : k <= j]

InLocalByName(local_subjects, name) ==
    \E j \in 1..Len(local_subjects) : local_subjects[j].subject_name = name

RECURSIVE SubjectFieldLoop(_, _, _)
SubjectFieldLoop(claude_subject, local_subject, i) ==
    IF i > Len(SubjectFields) THEN <<>>
    ELSE LET field == SubjectFields[i]
             claude_val == Get(claude_subject[field])
             local_val == Get(local_subject[field])
             here == IF local_val.t # "none" /\ claude_val.t # "none"
                        /\ ~NumericMatch(claude_val, local_val, TolerancePct)
                     THEN <<Issue(<<"subject", claude_subject.subject_name, field>>,
                                  claude_val, local_val, "warning")>>
                     ELSE <<>>
         IN  here \o SubjectFieldLoop(claude_subject, local_subject, i + 1)

\* _validate_subject_scores, from claude subject i on
RECURSIVE SubjectLoop(_, _, _)
SubjectLoop(claude_subjects, local_subjects, i) ==
    IF i > Len(claude_subjects) THEN <<>>
    ELSE LET claude_subject == claude_subjects[i]
             here == IF InLocalByName(local_subjects, claude_subject.subject_name)
                     THEN SubjectFieldLoop(claude_subject,
                              LocalByName(local_subjects, claude_subject.subject_name), 1)
                     ELSE <<>>
         IN  here \o SubjectLoop(claude_subjects, local_subjects, i + 1)

\* _validate_subject_scores also reporting the subjects the local record lacks
ValidateSubjectScoresReportMissing(claude_subjects, local_subjects) ==
    IF local_subjects = <<>> THEN <<>>
    ELSE LET lacking == SelectSeq(claude_subjects,
                            LAMBDA c : ~InLocalByName(local_subjects, c.subject_name))
         IN  SubjectLoop(claude_subjects, local_subjects, 1)
             \o [i \in 1..Len(lacking) |->
                    Issue(<<"subject", lacking[i].subject_name, "correct">>,
                          Get(lacking[i].correct), NoneV, "warning")]

ValidateSubjectScores(claude_subjects, local_subjects) ==
    IF local_subjects = <<>> THEN <<>>
    ELSE SubjectLoop(claude_subjects, local_subjects, 1)

\* _validate_metadata
ValidateMetadata(claude_exam, local_metadata) ==
    IF Truthy(local_metadata.booklet_type)
          /\ Get(claude_exam.booklet_type) # local_metadata.booklet_type
    THEN <<Issue(<<"exam", "booklet_type">>, Get(claude_exam.booklet_type),
                 local_metadata.booklet_type, "warning")>>
    ELSE <<>>

SeverityCount(issues, severity) ==
    Cardinality({i \in 1..Len(issues) : issues[i].severity = severity})

\* _generate_summary
\* (the sentence is kept as its parts: whether the two extractions agree, and
\* the counts it prints)
GenerateSummary(issues) ==
    [agree |-> (issues = <<>>),
     errors |-> SeverityCount(issues, "error"),
     warnings |-> SeverityCount(issues, "warning"),
     info |-> SeverityCount(issues, "info")]

\* _generate_report asking for warnings before errors
ReportStatusWarningsFirst(issues) ==
    IF SeverityCount(issues, "warning") > 0 THEN "warning"
    ELSE IF SeverityCount(issues, "error") > 0 THEN "failed"
    ELSE "passed"

\* the status chosen by _generate_report
ReportStatus(issues) ==
    IF SeverityCount(issues, "error") > 0 THEN "failed"
    ELSE IF SeverityCount(issues, "warning") > 0 THEN "warning"
    ELSE "passed"

\* _generate_report
GenerateReport(issues) ==
    [status |-> ReportStatus(issues),
     total_issues |-> Len(issues),
     errors |-> SeverityCount(issues, "error"),
     warnings |-> SeverityCount(issues, "warning"),
     info |-> SeverityCount(issues, "info"),
     issues |-> issues,
     summary |-> GenerateSummary(issues)]

\* self.issues at the end of validate()
ValidateIssues(cd, ld) ==
    ValidateStudentInfo(cd.student, ld.student_info)
    \o ValidateOverallScores(cd.overall_result, ld.overall_scores)
    \o ValidateSubjectScores(cd.subjects, ld.subject_scores)
    \o ValidateMetadata(cd.exam, ld.metadata)

\* validate() raises instead of returning a report
ValidateRaises(cd, ld) == OverallRaises(cd.overall_result, ld.overall_scores)

\* validate(): the exception, or the report
Validate(cd, ld) ==
    IF ValidateRaises(cd, ld)
    THEN [raised |-> TRUE, report |-> GenerateReport(<<>>)]
    ELSE [raised |-> FALSE, report |-> GenerateReport(ValidateIssues(cd, ld))]

----------------------------------------------------------------------------
(* Records validate() is applied to *)

Ali == <<"A", "l", "i">>
AliShouted == <<" ", "A", "L", "I", " ">>
Can == <<"C", "a", "n">>
Alim == <<"a", "l", "i", "m">>

ClaudeStudents ==
    [name : {Absent, Str(AliShouted), Str(Can)}, school : {Absent, Str(Can)}]
LocalStudents ==
    [name : {Absent, Str(Ali)}, school : {Absent, Str(Alim)}]

ClaudeOverall ==
    [total_questions : {Whole(90)},
     total_correct : {NoneV, Whole(53), Whole(40)},
     total_wrong : {Absent, Whole(14)},
     total_blank : {Whole(21)},
     net_score : {Absent, Num(49500), Num(40000)}]
NoScores ==
    [total_questions |-> Absent, total_correct |-> Absent, total_wrong |-> Absent,
     total_blank |-> Absent, net_score |-> Absent]
LocalOverall ==
    {NoScores} \cup
    [total_questions : {Absent, Whole(70)},
     total_correct : {Absent, Whole(53), BadStr},
     total_wrong : {Whole(14)},
     total_blank : {Absent},
     net_score : {Absent, Num(49500)}]

Subject(name, tq, c, w, b, net) ==
    [subject_name |-> name, total_questions |-> tq, correct |-> c, wrong |-> w,
     blank |-> b, net_score |-> net]
ClaudeSubjects ==
    {<<Subject("Matematik", Whole(40), Whole(30), Whole(4), Whole(6), Whole(29))>>}
LocalSubjects ==
    {<<>>,
     <<Subject("Fizik", Whole(14), Whole(10), Whole(2), Whole(2), Num(9500))>>,
     <<Subject("Matematik", Whole(40), Whole(20), Whole(4), Absent, NoneV)>>}

ClaudeExams == [booklet_type : {Absent, Str(<<"A">>), Str(<<"B">>)}]
LocalMetadata == [booklet_type : {Absent, Str(<<"A">>)}]

ClaudeRecords ==
    [student : ClaudeStudents, overall_result : ClaudeOverall,
     subjects : ClaudeSubjects, exam : ClaudeExams]
LocalRecords ==
    [student_info : LocalStudents, overall_scores : LocalOverall,
     subject_scores : LocalSubjects, metadata : LocalMetadata]

NotCalled == [called |-> FALSE, raised |-> FALSE, report |-> GenerateReport(<<>>)]

\* a pair of extractions of one readable PDF that agree (what an extractor
\* would have returned, when it raises instead)
GoodOverall ==
    [total_questions |-> Whole(90), total_correct |-> Whole(53),
     total_wrong |-> Whole(14), total_blank |-> Whole(21), net_score |-> Num(49500)]
GoodClaudeRecord ==
    [student |-> [name |-> Str(Ali), school |-> Str(Can)],
     overall_result |-> GoodOverall,
     subjects |-> <<Subject("Matematik", Whole(40), Whole(30), Whole(4), Whole(6), Whole(29))>>,
     exam |-> [booklet_type |-> Str(<<"A">>)]]
GoodLocalRecord ==
    [student_info |-> [name |-> Str(Ali), school |-> Absent],
     overall_scores |-> [NoScores EXCEPT !.total_correct = Whole(53)],
     subject_scores |-> <<>>,
     metadata |-> [booklet_type |-> Absent]]

----------------------------------------------------------------------------
(* Calls of _numeric_match, and validate() calls of several threads *)

\* float("nan"): float() accepts it, and every comparison with it is False
NaN == [t |-> "nan", v |-> 0, s |-> <<>>]

\* _numeric_match not called
NoMatch == [called |-> FALSE, result |-> FALSE]
IdleNumeric ==
    /\ arg1 = NoneV
    /\ arg2 = NoneV
    /\ tolerance = TolerancePct
    /\ match = NoMatch

\* request-handling threads, and the ValidationService objects they may call
Threads == {1, 2}
Instances == {1, 2}

\* a thread outside validate(), holding the arguments of its call
IdleCall(cd, ld) ==
    [pc |-> "idle", self |-> 0, cd |-> cd, ld |-> ld, raised |-> FALSE,
     report |-> GenerateReport(<<>>)]
IdleService ==
    /\ self_issues = [i \in Instances |-> <<>>]
    /\ calls = [t \in Threads |-> IdleCall(GoodClaudeRecord, GoodLocalRecord)]

\* no learning outcome, no merge
NoCall == [op |-> "none"]
IdleMerge ==
    /\ outcomes = <<>>
    /\ history = <<>>
    /\ merge_last = NoCall
    /\ premerge = <<>>

\* the services outside the upload pipeline, with empty tables
\* no study plan
IdlePlan ==
    /\ plan_days = <<>>
    /\ plan_items = <<>>
    /\ plan_last = NoCall
    /\ plan_clock = 0

\* no resource
IdleResources ==
    /\ resources = <<>>
    /\ res_links = {}
    /\ blacklist = {}
    /\ res_last = NoCall

\* no recommendation
IdleRecommendations ==
    /\ recs = <<>>
    /\ rec_last = NoCall

IdleRest == IdleMerge /\ IdlePlan /\ IdleResources /\ IdleRecommendations

----------------------------------------------------------------------------
(* The exams table, the normalized tables and the PDF directory *)

RetentionHours == 24
MaxDays == 2
MaxUploads == 1
MaxReqs == 1

\* the request slots: the confirm_exam handlers that may be running at once
Reqs == DOMAIN req
\* the upload awaiting confirmation the table holds when the process starts
PreExisting == {1}
ExamIds == PreExisting \cup (1..(Cardinality(PreExisting) + MaxUploads))
DataSources == {"claude", "local", "other"}

\* SQL NULL in a DateTime column
NullTime == -1

\* a Text column holding a JSON document: NULL, a document with the keys
\* confirm_exam reads ("overall_result", "subjects"), or the local parser's
\* own document, which names them "overall_scores" and "subject_scores"
NullJson == [json |-> "null", subjects |-> 0, learning_outcomes |-> 0, questions |-> 0]
ClaudeJson == [json |-> "normalized", subjects |-> 2, learning_outcomes |-> 1, questions |-> 2]
LocalJson == [json |-> "normalized", subjects |-> 1, learning_outcomes |-> 0, questions |-> 0]
ParserJson == [json |-> "parser", subjects |-> 1, learning_outcomes |-> 0, questions |-> 0]

\* the normalized rows of an exam: ExamResult, SubjectResult, LearningOutcome
\* and Question row counts, and the extraction the rows were built from
NoRows ==
    [exam_result |-> 0, subject_results |-> 0, learning_outcomes |-> 0,
     questions |-> 0, sources |-> {}]
RowCount(r) == r.exam_result + r.subject_results + r.learning_outcomes + r.questions

\* rows in pending_confirmation the table holds when the process starts
PendingExams ==
    [status : {"pending_confirmation"},
     claude_data : {NullJson, ClaudeJson},
     local_data : {NullJson, LocalJson, ParserJson},
     validation_report : {"failed"},
     uploaded_at : {0},
     confirmed_at : {NullTime},
     pdf_path : {0}]

IdleReq == [pc |-> "idle", exam_id |-> 0, data_source |-> "none", response |-> "none"]
IdleSweep == [pc |-> "idle", found |-> {}, deleted |-> {}]
NoUpload == [result |-> "none", exam_id |-> 0, status |-> "none"]

Init ==
    /\ claude_data = NoScores
    /\ local_data = NoScores
    /\ outcome = NotCalled
    /\ IdleRest
    /\ \E pre \in [PreExisting -> PendingExams] :
          exams = [e \in PreExisting |-> [pre[e] EXCEPT !.pdf_path = e]]
    /\ rows = [e \in PreExisting |-> NoRows]
    /\ students = {}
    /\ files = PreExisting
    /\ nextId = Cardinality(PreExisting) + 1
    /\ now = 0
    /\ req = [r \in 1..MaxReqs |-> IdleReq]
    /\ sweep = IdleSweep
    /\ lastUpload = NoUpload
    /\ IdleNumeric
    /\ IdleService

\* the passage of time: a day goes by
Tick ==
    /\ now + 24 <= MaxDays * 24
    /\ now' = now + 24
    /\ UNCHANGED <<exams, rows, students, files, nextId, req, sweep, lastUpload>>
    /\ UNCHANGED vvars

----------------------------------------------------------------------------
(* upload_exam_pdf / ExamService.process_exam_pdf *)

\* records the two extractors hand to process_exam_pdf
UploadClaudeRecords ==
    {GoodClaudeRecord,
     [GoodClaudeRecord EXCEPT !.overall_result.net_score = Num(40000)],
     [GoodClaudeRecord EXCEPT !.overall_result.total_wrong = NoneV],
     [GoodClaudeRecord EXCEPT !.student.name = Absent]}
UploadLocalRecords ==
    {GoodLocalRecord,
     [GoodLocalRecord EXCEPT !.overall_scores = NoScores]}

\* the keys and NOT NULL columns process_exam_pdf needs of extracted_data:
\* student name and school, the overall result, every subject's numbers
Storable(cd) ==
    /\ cd.student.name.t = "str"
    /\ cd.student.school.t # "absent"
    /\ \A i \in 1..Len(OverallFields) : cd.overall_result[OverallFields[i]].t = "num"
    /\ \A j \in 1..Len(cd.subjects) : \A i \in 1..Len(SubjectFields) :
           cd.subjects[j][SubjectFields[i]].t = "num"

\* process_exam_pdf going on with the Claude extraction alone when the local
\* parser raises
UploadResultWithoutParser(parserOk, claudeOk, cd, ld) ==
    IF ~claudeOk THEN "extractor_failed"
    ELSE IF parserOk /\ ValidateRaises(cd, ld) THEN "validation_raised"
    ELSE IF cd.student.name.t = "absent" \/ cd.student.school.t = "absent"
         THEN "student_rejected"
    ELSE IF ~Storable(cd) THEN "data_rejected"
    ELSE "created"

\* how far process_exam_pdf gets: parserOk / claudeOk say whether
\* LocalPDFParser.parse_pdf / ClaudeClient.analyze_exam_pdf return
UploadResult(parserOk, claudeOk, cd, ld) ==
    IF ~parserOk \/ ~claudeOk THEN "extractor_failed"
    ELSE IF ValidateRaises(cd, ld) THEN "validation_raised"
    ELSE IF cd.student.name.t = "absent" \/ cd.student.school.t = "absent"
         THEN "student_rejected"
    ELSE IF ~Storable(cd) THEN "data_rejected"
    ELSE "created"

\* get_or_create_student commits on its own, before the exam is built
UploadCommitsStudent(parserOk, claudeOk, cd, ld) ==
    UploadResult(parserOk, claudeOk, cd, ld) \in {"data_rejected", "created"}
        /\ cd.student.name.t = "str"

\* the Exam row process_exam_pdf adds: status, claude_data, local_data and
\* validation_report are not passed to Exam(), so the column defaults apply
NewExam(id) ==
    [status |-> "confirmed",
     claude_data |-> NullJson,
     local_data |-> NullJson,
     validation_report |-> "null",
     uploaded_at |-> now,
     confirmed_at |-> NullTime,
     pdf_path |-> id]

\* the normalized rows process_exam_pdf adds, from the Claude extraction
NewRows(cd) ==
    [exam_result |-> 1, subject_results |-> Len(cd.subjects),
     learning_outcomes |-> 0, questions |-> 0, sources |-> {"claude"}]

\* f with the key k bound to v
Put(f, k, v) == [x \in (DOMAIN f) \cup {k} |-> IF x = k THEN v ELSE f[x]]
\* f without the keys in ks
Without(f, ks) == [x \in (DOMAIN f) \ ks |-> f[x]]

Upload(parserOk, claudeOk, cd, ld) ==
    LET id == nextId
        result == UploadResult(parserOk, claudeOk, cd, ld)
    IN  /\ nextId <= Cardinality(PreExisting) + MaxUploads
        /\ nextId' = nextId + 1
        /\ files' = files \cup {id}
        /\ students' = IF UploadCommitsStudent(parserOk, claudeOk, cd, ld)
                       THEN students \cup {<<cd.student.name.s, cd.student.school.s>>}
                       ELSE students
        /\ exams' = IF result = "created" THEN Put(exams, id, NewExam(id)) ELSE exams
        /\ rows' = IF result = "created" THEN Put(rows, id, NewRows(cd)) ELSE rows
        /\ lastUpload' =
              [result |-> result,
               exam_id |-> IF result = "created" THEN id ELSE 0,
               status |-> IF parserOk /\ claudeOk /\ ~ValidateRaises(cd, ld)
                          THEN Validate(cd, ld).report.status ELSE "none"]
        /\ UNCHANGED <<now, req, sweep>>
        /\ UNCHANGED vvars

----------------------------------------------------------------------------
(* confirm_exam *)

\* confirm_exam without the test of exam.status
ConfirmCheckNoStatus(exam_id, data_source) ==
    IF exam_id \notin DOMAIN exams THEN "404 not found"
    ELSE IF data_source \notin {"claude", "local"} THEN "400 bad data_source"
    ELSE IF data_source = "claude" /\ exams[exam_id].claude_data.json = "null"
         THEN "400 claude data not available"
    ELSE IF data_source = "local" /\ exams[exam_id].local_data.json = "null"
         THEN "400 local data not available"
    ELSE "ok"

\* the checks of confirm_exam before it builds any row: the HTTP error it
\* raises, or "ok"
ConfirmCheck(exam_id, data_source) ==
    IF exam_id \notin DOMAIN exams THEN "404 not found"
    ELSE IF exams[exam_id].status = "confirmed" THEN "400 already confirmed"
    ELSE IF data_source \notin {"claude", "local"} THEN "400 bad data_source"
    ELSE IF data_source = "claude" /\ exams[exam_id].claude_data.json = "null"
         THEN "400 claude data not available"
    ELSE IF data_source = "local" /\ exams[exam_id].local_data.json = "null"
         THEN "400 local data not available"
    ELSE "ok"

\* chosen_data = json.loads(...)
ChosenData(exam_id, data_source) ==
    IF data_source = "claude" THEN exams[exam_id].claude_data
    ELSE exams[exam_id].local_data

\* confirm_exam committing the status change before it looks at data_source
ExamsAfterCheckEager(exam_id, data_source) ==
    IF exam_id \in DOMAIN exams /\ exams[exam_id].status # "confirmed"
    THEN [exams EXCEPT ![exam_id].status = "confirmed", ![exam_id].confirmed_at = now]
    ELSE exams

\* what the exams table holds once confirm_exam has run its checks: the
\* handler writes nothing before db.commit()
ExamsAfterCheck(exam_id, data_source) == exams

\* request slots not inside a handler; a new request takes the first of them
FreeReqs == {q \in Reqs : req[q].pc \in {"idle", "done"}}

\* confirm_exam up to the point where the session holds the new rows and the
\* status change, all uncommitted; chosen_data["overall_result"] is a KeyError
\* on a document without that key
ConfirmBegin(r, exam_id, data_source) ==
    LET check == ConfirmCheck(exam_id, data_source)
    IN  /\ r \in FreeReqs
        /\ \A q \in FreeReqs : r <= q
        /\ exams' = ExamsAfterCheck(exam_id, data_source)
        /\ req' = [req EXCEPT ![r] =
              IF check # "ok"
              THEN [IdleReq EXCEPT !.pc = "done", !.response = check]
              ELSE IF ChosenData(exam_id, data_source).json # "normalized"
              THEN [IdleReq EXCEPT !.pc = "done", !.response = "500 key error"]
              ELSE [pc |-> "loaded", exam_id |-> exam_id, data_source |-> data_source,
                    response |-> "none"]]
        /\ UNCHANGED <<rows, students, files, nextId, now, sweep, lastUpload>>
        /\ UNCHANGED vvars

\* db.commit() of confirm_exam on a table without the unique index on
\* exam_results.exam_id
CommitResultNoUniqueIndex(exam_id) ==
    IF exam_id \notin DOMAIN exams THEN "500 stale data" ELSE "200 confirmed"

\* what db.commit() of confirm_exam meets: the UPDATE of a row the sweep has
\* deleted matches nothing, and exam_results.exam_id is unique
CommitResult(exam_id) ==
    IF exam_id \notin DOMAIN exams THEN "500 stale data"
    ELSE IF rows[exam_id].exam_result > 0 THEN "500 integrity error"
    ELSE "200 confirmed"

\* the rows confirm_exam adds from the chosen document
ConfirmedRows(old, chosen, data_source) ==
    [exam_result |-> old.exam_result + 1,
     subject_results |-> old.subject_results + chosen.subjects,
     learning_outcomes |-> old.learning_outcomes + chosen.learning_outcomes,
     questions |-> old.questions + chosen.questions,
     sources |-> old.sources \cup {data_source}]

\* db.commit() of confirm_exam
ConfirmCommit(r) ==
    LET exam_id == req[r].exam_id
        data_source == req[r].data_source
        result == CommitResult(exam_id)
    IN  /\ req[r].pc = "loaded"
        /\ req' = [req EXCEPT ![r] = [IdleReq EXCEPT !.pc = "done", !.response = result]]
        /\ IF result = "200 confirmed"
           THEN /\ exams' = [exams EXCEPT ![exam_id].status = "confirmed",
                                          ![exam_id].confirmed_at = now]
                /\ rows' = [rows EXCEPT ![exam_id] =
                              ConfirmedRows(@, ChosenData(exam_id, data_source), data_source)]
           ELSE UNCHANGED <<exams, rows>>
        /\ UNCHANGED <<students, files, nextId, now, sweep, lastUpload>>
        /\ UNCHANGED vvars

----------------------------------------------------------------------------
(* cleanup_unconfirmed_exams *)

\* the query: exams pending confirmation and uploaded before the cutoff
OldPendingExams ==
    {e \in DOMAIN exams :
        /\ exams[e].status = "pending_confirmation"
        /\ exams[e].uploaded_at < now - RetentionHours}

\* the job starts and runs its query (with nothing found it returns, and
\* the state is as before)
SweepQuery ==
    /\ sweep.pc = "idle"
    /\ OldPendingExams # {}
    /\ sweep' = [pc |-> "deleting", found |-> OldPendingExams, deleted |-> {}]
    /\ UNCHANGED <<exams, rows, students, files, nextId, now, req, lastUpload>>
    /\ UNCHANGED vvars

\* one turn of the loop: unlink the PDF, db.delete(exam)
SweepDelete ==
    /\ sweep.pc = "deleting"
    /\ sweep.found # sweep.deleted
    /\ LET e == CHOOSE x \in sweep.found \ sweep.deleted :
                    \A y \in sweep.found \ sweep.deleted : x <= y
       IN  /\ files' = files \ {e}
           /\ sweep' = [sweep EXCEPT !.deleted = @ \cup {e}]
    /\ UNCHANGED <<exams, rows, students, nextId, now, req, lastUpload>>
    /\ UNCHANGED vvars

\* the rows db.commit() of the job deletes: every exam of the query result,
\* by primary key, with its normalized rows (cascade)
SweepDeletes == sweep.deleted \cap DOMAIN exams

\* db.commit() of the job
SweepCommit ==
    /\ sweep.pc = "deleting"
    /\ sweep.found = sweep.deleted
    /\ exams' = Without(exams, SweepDeletes)
    /\ rows' = Without(rows, SweepDeletes)
    /\ sweep' = IdleSweep
    /\ UNCHANGED <<students, files, nextId, now, req, lastUpload>>
    /\ UNCHANGED vvars

Next ==
    \/ Tick
    \/ \E cd \in UploadClaudeRecords, ld \in UploadLocalRecords :
          Upload(TRUE, TRUE, cd, ld)
    \/ \E parserOk \in BOOLEAN, claudeOk \in BOOLEAN :
          /\ ~(parserOk /\ claudeOk)
          /\ Upload(parserOk, claudeOk, GoodClaudeRecord, GoodLocalRecord)
    \/ \E r \in Reqs, e \in ExamIds, s \in DataSources : ConfirmBegin(r, e, s)
    \/ \E r \in Reqs : ConfirmCommit(r)
    \/ SweepQuery
    \/ SweepDelete
    \/ SweepCommit

Spec == Init /\ [][Next]_vars

----------------------------------------------------------------------------
(* validate() applied to every pair of records *)

\* the parts of the state the validation run leaves alone
IdleDb ==
    /\ exams = <<>>
    /\ rows = <<>>
    /\ students = {}
    /\ files = {}
    /\ nextId = 1
    /\ now = 0
    /\ req = [r \in 1..MaxReqs |-> IdleReq]
    /\ sweep = IdleSweep
    /\ lastUpload = NoUpload

InitV ==
    /\ claude_data \in ClaudeRecords
    /\ local_data \in LocalRecords
    /\ outcome = NotCalled
    /\ IdleRest
    /\ IdleDb
    /\ IdleNumeric
    /\ IdleService

\* validator.validate(claude_data, local_data)
ValidateCall ==
    /\ ~outcome.called
    /\ outcome' = [called |-> TRUE,
                   raised |-> Validate(claude_data, local_data).raised,
                   report |-> Validate(claude_data, local_data).report]
    /\ UNCHANGED <<claude_data, local_data>>
    /\ UNCHANGED <<nvars, svars>>
    /\ UNCHANGED dbvars

NextV == ValidateCall

SpecV == InitV /\ [][NextV]_vars

\* the report validate() returned
Report == outcome.report
Returned == outcome.called /\ ~outcome.raised
HasIssue(field, severity) ==
    \E i \in 1..Len(Report.issues) :
        Report.issues[i].field = field /\ Report.issues[i].severity = severity
HasIssueAt(field) ==
    \E i \in 1..Len(Report.issues) : Report.issues[i].field = field
HasSeverity(severity) ==
    \E i \in 1..Len(Report.issues) : Report.issues[i].severity = severity

\* C1: every report validate() returns has status "failed" iff some issue is
\* an error, "warning" iff no issue is an error and some issue is a warning,
\* and "passed" iff no issue is an error or a warning.
C1_StatusFollowsSeverities ==
    Returned =>
        /\ Report.status \in {"failed", "warning", "passed"}
        /\ (Report.status = "failed") <=> HasSeverity("error")
        /\ (Report.status = "warning") <=> (~HasSeverity("error") /\ HasSeverity("warning"))
        /\ (Report.status = "passed") <=> (~HasSeverity("error") /\ ~HasSeverity("warning"))

\* C1 witnesses: a failed report that also carries a warning and an info
\* issue (the error decides)
C1_Witness ==
    /\ Returned
    /\ Report.status = "failed"
    /\ HasSeverity("warning")
    /\ HasSeverity("info")

\* a field the record does not carry: no such key, or None
Missing(x) == x.t \in {"absent", "none"}

\* the primary record's net_score is off its own correct - wrong / 4 by more
\* than 5% of their mean magnitude
NetInconsistent(scores) ==
    /\ scores.total_correct.t = "num"
    /\ scores.total_wrong.t = "num"
    /\ scores.net_score.t = "num"
    /\ LET expected == scores.total_correct.v - (scores.total_wrong.v \div 4)
           actual == scores.net_score.v
       IN  Abs(expected - actual) * 200 > 5 * (Abs(expected) + Abs(actual))

\* C5: whenever the primary record's net_score is inconsistent with its own
\* total_correct - total_wrong / 4 by more than 5%, the report carries an
\* error issue at overall.net_calculation, whatever the baseline record is
\* (also when the baseline has no overall scores).
C5_NetErrorWhateverBaseline ==
    (outcome.called /\ NetInconsistent(claude_data.overall_result)) =>
        (Returned /\ HasIssue(<<"overall", "net_calculation">>, "error"))

\* C6: validate() never raises, and a malformed numeric string on the local
\* side makes the field not comparable: no issue is recorded for it.
C6_NeverRaises ==
    outcome.called =>
        /\ ~outcome.raised
        /\ \A i \in 1..Len(OverallFields) :
              local_data.overall_scores[OverallFields[i]].t = "badstr"
                  => ~HasIssueAt(<<"overall", OverallFields[i]>>)

\* C7: a compared field that is absent on the primary side or on the baseline
\* side gets no issue: student name, school, booklet type, every overall
\* field and every per-subject field.
C7_AbsentFieldsSkipped ==
    Returned =>
        /\ (Missing(claude_data.student.name) \/ Missing(local_data.student_info.name))
              => ~HasIssueAt(<<"student", "name">>)
        /\ (Missing(claude_data.student.school) \/ Missing(local_data.student_info.school))
              => ~HasIssueAt(<<"student", "school">>)
        /\ (Missing(claude_data.exam.booklet_type) \/ Missing(local_data.metadata.booklet_type))
              => ~HasIssueAt(<<"exam", "booklet_type">>)
        /\ \A i \in 1..Len(OverallFields) :
              (Missing(claude_data.overall_result[OverallFields[i]])
                  \/ Missing(local_data.overall_scores[OverallFields[i]]))
                => ~HasIssueAt(<<"overall", OverallFields[i]>>)
        /\ \A c \in 1..Len(claude_data.subjects) :
           \A l \in 1..Len(local_data.subject_scores) :
           \A i \in 1..Len(SubjectFields) :
              (/\ claude_data.subjects[c].subject_name = local_data.subject_scores[l].subject_name
               /\ (Missing(claude_data.subjects[c][SubjectFields[i]])
                     \/ Missing(local_data.subject_scores[l][SubjectFields[i]])))
                => ~HasIssueAt(<<"subject", claude_data.subjects[c].subject_name,
                                 SubjectFields[i]>>)

----------------------------------------------------------------------------
(* The upload / confirmation life cycle *)

HasRows(e) == e \in DOMAIN rows /\ RowCount(rows[e]) > 0
PendingHaveNoRows ==
    \A e \in DOMAIN exams : exams[e].status = "pending_confirmation" => ~HasRows(e)

\* C2: a successful upload leaves the new exam in pending_confirmation, with
\* both raw extraction payloads and the validation report, and without
\* normalized rows; and no exam in pending_confirmation ever has normalized
\* rows.
C2_UploadLeavesPending ==
    /\ PendingHaveNoRows
    /\ [][/\ PendingHaveNoRows'
          /\ \A cd \in UploadClaudeRecords, ld \in UploadLocalRecords :
                (Upload(TRUE, TRUE, cd, ld) /\ lastUpload'.result = "created") =>
                    /\ exams'[nextId].status = "pending_confirmation"
                    /\ exams'[nextId].claude_data.json # "null"
                    /\ exams'[nextId].local_data.json # "null"
                    /\ exams'[nextId].validation_report # "null"
                    /\ RowCount(rows'[nextId]) = 0]_vars

\* C3: a confirm_exam on an exam that is already confirmed is rejected and
\* changes neither the exam nor any normalized row; a confirm_exam that
\* succeeds turns a pending exam into a confirmed one with one ExamResult and
\* the rows of the chosen document; and the normalized rows of a confirmed
\* exam never change while the exam exists.
C3_SecondConfirmRejected ==
    [][/\ \A r \in FreeReqs, e \in (DOMAIN exams), s \in DataSources :
            (/\ req' # req
             /\ exams[e].status = "confirmed"
             /\ ConfirmBegin(r, e, s)) =>
                /\ req'[r].pc = "done"
                /\ req'[r].response = "400 already confirmed"
                /\ exams' = exams
                /\ rows' = rows
       /\ \A r \in Reqs :
            (req'[r].response = "200 confirmed" /\ ConfirmCommit(r)) =>
                LET e == req[r].exam_id
                    chosen == ChosenData(e, req[r].data_source)
                IN  /\ exams[e].status = "pending_confirmation"
                    /\ exams'[e].status = "confirmed"
                    /\ rows'[e].exam_result = 1
                    /\ rows'[e].subject_results = chosen.subjects
                    /\ rows'[e].learning_outcomes = chosen.learning_outcomes
                    /\ rows'[e].questions = chosen.questions
                    /\ rows'[e].sources = {req[r].data_source}
       /\ \A e \in (DOMAIN exams) \cap (DOMAIN exams') :
            exams[e].status = "confirmed" => rows'[e] = rows[e]]_vars

\* C3 witness: the exam the table started with has been confirmed by one
\* confirm_exam, and a later confirm_exam was rejected as already confirmed
\* (no other exam exists that it could have named)
C3_Witness ==
    /\ DOMAIN exams = PreExisting
    /\ \A e \in PreExisting :
          exams[e].status = "confirmed" /\ exams[e].confirmed_at # NullTime
    /\ \E r \in Reqs : req[r].pc = "done" /\ req[r].response = "400 already confirmed"

\* C4: the cleanup job never deletes an exam, or the PDF of an exam, that is
\* confirmed when the deletion happens, however a confirm_exam interleaves
\* with the job.
C4_SweepSparesConfirmed ==
    [][\A e \in DOMAIN exams :
          exams[e].status = "confirmed" =>
              /\ e \in DOMAIN exams'
              /\ (e \in files => e \in files')]_vars

\* C8: an upload during which the local parser or the Claude call raises
\* leaves the exams table, and the normalized tables, as they were.
C8_ExtractorFailurePersistsNothing ==
    [][nextId' # nextId =>
          \A parserOk \in BOOLEAN, claudeOk \in BOOLEAN :
          \A cd \in UploadClaudeRecords, ld \in UploadLocalRecords :
             (~(parserOk /\ claudeOk) /\ Upload(parserOk, claudeOk, cd, ld)) =>
                 /\ exams' = exams
                 /\ rows' = rows
                 /\ lastUpload'.result = "extractor_failed"]_vars

\* C8 witness: an upload has failed in an extractor, with an exam in the table
C8_Witness ==
    /\ lastUpload.result = "extractor_failed"
    /\ DOMAIN exams # {}

RejectedResponses ==
    {"400 already confirmed", "400 bad data_source",
     "400 claude data not available", "400 local data not available"}

\* C9: a confirm_exam that is rejected (exam already confirmed, data_source
\* neither claude nor local, chosen payload unavailable) leaves every exam
\* row, status and confirmed_at included, and every normalized row as they
\* were.
C9_RejectedConfirmChangesNothing ==
    [][\A r \in FreeReqs, e \in ExamIds, s \in DataSources :
          (req' # req /\ req'[r].response \in RejectedResponses /\ ConfirmBegin(r, e, s)) =>
              /\ exams' = exams
              /\ rows' = rows]_vars

\* C9 witness: a request was rejected for its data_source or for a missing
\* payload while the exam it names is still pending
C9_Witness ==
    \E r \in Reqs :
        /\ req[r].response \in RejectedResponses \ {"400 already confirmed"}
        /\ \E e \in DOMAIN exams : exams[e].status = "pending_confirmation"

\* C10: an upload whose validation report is "failed" is stored, in
\* pending_confirmation, and an exam becomes confirmed only by a confirm_exam
\* that names it.
C10_FailedReportStaysPending ==
    [][/\ \A cd \in UploadClaudeRecords, ld \in UploadLocalRecords :
            (Upload(TRUE, TRUE, cd, ld) /\ lastUpload'.status = "failed") =>
                /\ lastUpload'.result = "created"
                /\ exams'[nextId].status = "pending_confirmation"
       /\ \A e \in DOMAIN exams' :
            (/\ exams'[e].status = "confirmed"
             /\ (e \notin DOMAIN exams \/ exams[e].status # "confirmed")) =>
                \E r \in Reqs : ConfirmCommit(r) /\ req[r].exam_id = e]_vars

\* the scheduler starts cleanup_unconfirmed_exams every 6 hours for as long as
\* the process runs, and a started job runs to its end
SpecFair ==
    /\ Spec
    /\ WF_vars(SweepQuery)
    /\ WF_vars(SweepDelete)
    /\ WF_vars(SweepCommit)

ExamStatus == {"pending_confirmation", "confirmed"}

\* C11: an exam's status is always pending_confirmation or confirmed, and a
\* confirmed exam stays in the table, confirmed, in every step of confirm_exam,
\* of the upload and of the cleanup job.
C11_ConfirmedIsTerminal ==
    /\ [](\A e \in DOMAIN exams : exams[e].status \in ExamStatus)
    /\ [][\A e \in DOMAIN exams :
             exams[e].status = "confirmed" =>
                 /\ e \in DOMAIN exams'
                 /\ exams'[e].status = "confirmed"]_vars

\* the exam is gone, row and PDF
Deleted(e) == e \notin DOMAIN exams /\ e \notin files

\* every exam pending for longer than the retention window is eventually
\* deleted with its PDF, unless it is confirmed first
OldPendingEventuallyDeleted ==
    \A e \in ExamIds :
        (e \in OldPendingExams) ~>
            (Deleted(e) \/ (e \in DOMAIN exams /\ exams[e].status = "confirmed"))

\* C12: an exam pending for longer than the retention window is eventually
\* deleted with its PDF by the cleanup job, and whenever an exam row or an
\* exam's PDF disappears, that exam is in pending_confirmation and was
\* uploaded more than RetentionHours ago.
C12_SweepDeletesOldPendingOnly ==
    /\ OldPendingEventuallyDeleted
    /\ [][\A e \in DOMAIN exams :
             (e \notin DOMAIN exams' \/ (e \in files /\ e \notin files')) =>
                 /\ exams[e].status = "pending_confirmation"
                 /\ exams[e].uploaded_at < now - RetentionHours]_vars

----------------------------------------------------------------------------
(* validate() called by several threads, step by step *)

\* the record pairs the threads validate: agreeing extractions; a name and a
\* booklet mismatch; a total_correct mismatch; a total_wrong of None
ServicePairs ==
    {[cd |-> GoodClaudeRecord, ld |-> GoodLocalRecord],
     [cd |-> [GoodClaudeRecord EXCEPT !.student.name = Str(Can)],
      ld |-> [GoodLocalRecord EXCEPT !.metadata.booklet_type = Str(<<"B">>)]],
     [cd |-> GoodClaudeRecord,
      ld |-> [GoodLocalRecord EXCEPT !.overall_scores.total_correct = Whole(40)]],
     [cd |-> [GoodClaudeRecord EXCEPT !.overall_result.total_wrong = NoneV],
      ld |-> GoodLocalRecord]}

InitS ==
    /\ claude_data = NoScores
    /\ local_data = NoScores
    /\ outcome = NotCalled
    /\ IdleRest
    /\ IdleDb
    /\ IdleNumeric
    /\ self_issues = [i \in Instances |-> <<>>]
    /\ calls \in [Threads -> {IdleCall(p.cd, p.ld) : p \in ServicePairs}]

\* the parts of the state a step of validate() leaves alone
ValidateFrame ==
    /\ UNCHANGED <<claude_data, local_data, outcome>>
    /\ UNCHANGED nvars
    /\ UNCHANGED dbvars

\* self.issues.append(...) for each issue of the list, on the thread's instance
AppendIssues(t, found) ==
    self_issues' = [self_issues EXCEPT ![calls[t].self] = @ \o found]

\* validate() is entered on the instance: self.issues = []
CallBegin(t, instance) ==
    /\ calls[t].pc = "idle"
    /\ self_issues' = [self_issues EXCEPT ![instance] = <<>>]
    /\ calls' = [calls EXCEPT ![t].pc = "student", ![t].self = instance]
    /\ ValidateFrame

\* self._validate_student_info(...)
CallStudentInfo(t) ==
    /\ calls[t].pc = "student"
    /\ AppendIssues(t, ValidateStudentInfo(calls[t].cd.student, calls[t].ld.student_info))
    /\ calls' = [calls EXCEPT ![t].pc = "overall"]
    /\ ValidateFrame

\* self._validate_overall_scores(...): the TypeError of expected_net comes
\* after the loop over the numeric fields has appended its issues
CallOverallScores(t) ==
    LET claude_scores == calls[t].cd.overall_result
        local_scores == calls[t].ld.overall_scores
    IN  /\ calls[t].pc = "overall"
        /\ IF OverallRaises(claude_scores, local_scores)
           THEN /\ AppendIssues(t, OverallLoop(claude_scores, local_scores, 1))
                /\ calls' = [calls EXCEPT ![t].pc = "done", ![t].raised = TRUE]
           ELSE /\ AppendIssues(t, ValidateOverallScores(claude_scores, local_scores))
                /\ calls' = [calls EXCEPT ![t].pc = "subjects"]
        /\ ValidateFrame

\* self._validate_subject_scores(...)
CallSubjectScores(t) ==
    /\ calls[t].pc = "subjects"
    /\ AppendIssues(t, ValidateSubjectScores(calls[t].cd.subjects, calls[t].ld.subject_scores))
    /\ calls' = [calls EXCEPT ![t].pc = "metadata"]
    /\ ValidateFrame

\* self._validate_metadata(...)
CallMetadata(t) ==
    /\ calls[t].pc = "metadata"
    /\ AppendIssues(t, ValidateMetadata(calls[t].cd.exam, calls[t].ld.metadata))
    /\ calls' = [calls EXCEPT ![t].pc = "report"]
    /\ ValidateFrame

\* return self._generate_report()
CallGenerateReport(t) ==
    /\ calls[t].pc = "report"
    /\ calls' = [calls EXCEPT ![t].pc = "done",
                              ![t].report = GenerateReport(self_issues[calls[t].self])]
    /\ UNCHANGED self_issues
    /\ ValidateFrame

NextS ==
    \/ \E t \in Threads, instance \in Instances : CallBegin(t, instance)
    \/ \E t \in Threads : CallStudentInfo(t)
    \/ \E t \in Threads : CallOverallScores(t)
    \/ \E t \in Threads : CallSubjectScores(t)
    \/ \E t \in Threads : CallMetadata(t)
    \/ \E t \in Threads : CallGenerateReport(t)

SpecS == InitS /\ [][NextS]_vars

\* the thread's validate() has returned a report
CallReturned(t) == calls[t].pc = "done" /\ ~calls[t].raised

\* a call on an instance no other thread has entered returns what Validate
\* gives for its record pair, and raises when Validate says so
UnsharedCallsRunAlone ==
    \A t \in Threads :
        (calls[t].pc = "done" /\ \A u \in Threads \ {t} : calls[u].self # calls[t].self) =>
            /\ calls[t].raised = Validate(calls[t].cd, calls[t].ld).raised
            /\ ~calls[t].raised => calls[t].report = Validate(calls[t].cd, calls[t].ld).report

\* C13: no step of validate() changes a record it was given or anything in
\* persistent storage, and any two validate() calls that were given equal
\* records return equal reports.
C13_ValidateIsPure ==
    /\ [](\A t, u \in Threads :
            (/\ CallReturned(t)
             /\ CallReturned(u)
             /\ calls[t].cd = calls[u].cd
             /\ calls[t].ld = calls[u].ld) => calls[t].report = calls[u].report)
    /\ [][/\ \A t \in Threads : calls'[t].cd = calls[t].cd /\ calls'[t].ld = calls[t].ld
          /\ UNCHANGED dbvars]_vars

\* C14: however the validate() calls of two threads interleave, on one
\* ValidationService instance or on two, each returned report holds exactly
\* the issues of its own record pair, in the order a call running alone
\* records them.
C14_ConcurrentCallsKeepOwnIssues ==
    \A t \in Threads :
        CallReturned(t) =>
            calls[t].report.issues = ValidateIssues(calls[t].cd, calls[t].ld)

----------------------------------------------------------------------------
(* _numeric_match applied to every pair of values *)

\* numbers of an extraction record, in thousandths: zero, values below 0.01,
\* 0.012, 1, pairs 10% and 2.2% apart, a negative score
NumericPoints ==
    {0, 4, 5, -4, 12, Scale, 19 * Scale, 21 * Scale, 88 * Scale, 90 * Scale,
     95 * Scale, 105 * Scale, -90 * Scale}
\* what a field of a record parsed from JSON can hold
NumericValues == {NoneV, BadStr, NaN} \cup {Num(n) : n \in NumericPoints}
\* tolerances, in percent (0.1 by default, 0.05 for the net score)
Tolerances == {0, NetTolerancePct, TolerancePct, 50, 200}

InitN ==
    /\ claude_data = NoScores
    /\ local_data = NoScores
    /\ outcome = NotCalled
    /\ IdleRest
    /\ IdleDb
    /\ IdleService
    /\ arg1 \in NumericValues
    /\ arg2 \in NumericValues
    /\ tolerance \in Tolerances
    /\ match = NoMatch

\* self._numeric_match(val1, val2, tolerance)
NumericMatchCall ==
    /\ ~match.called
    /\ match' = [called |-> TRUE, result |-> NumericMatch(arg1, arg2, tolerance)]
    /\ UNCHANGED <<arg1, arg2, tolerance>>
    /\ UNCHANGED <<claude_data, local_data, outcome>>
    /\ UNCHANGED svars
    /\ UNCHANGED dbvars

NextN == NumericMatchCall

SpecN == InitN /\ [][NextN]_vars

BothNumbers == arg1.t = "num" /\ arg2.t = "num"

\* C17: _numeric_match(a, b, t) returns what _numeric_match(b, a, t) returns,
\* for all values a and b and every tolerance t.
C17_NumericMatchSymmetric ==
    match.called => (match.result = NumericMatch(arg2, arg1, tolerance))

\* C17 witness: two unequal numbers that match at the default tolerance
C17_Witness ==
    /\ match.called
    /\ BothNumbers
    /\ arg1.v # arg2.v
    /\ tolerance = TolerancePct
    /\ match.result

\* C18: _numeric_match(a, a) is true for every value a an extraction record
\* can hold.
C18_NumericMatchReflexive ==
    (match.called /\ arg1 = arg2) => match.result

\* C18 as amended: _numeric_match(a, a) is true for every number a, at every
\* tolerance, and false for a value that is not a number (None, a malformed
\* string, NaN).
C18_NumericMatchReflexiveOnNumbers ==
    (match.called /\ arg1 = arg2) => (match.result <=> arg1.t = "num")

\* C18 witness: zero matched against itself at tolerance zero
C18_Witness ==
    /\ match.called
    /\ arg1 = Num(0)
    /\ arg2 = Num(0)
    /\ tolerance = 0
    /\ match.result

\* C19: two unequal numbers whose average magnitude is below 0.01 match
\* exactly when they differ by less than 0.01, whatever the tolerance.
C19_NearZeroBranch ==
    (/\ match.called
     /\ BothNumbers
     /\ arg1.v # arg2.v
     /\ (Abs(arg1.v) + Abs(arg2.v)) * 100 < 2 * Scale) =>
        (match.result <=> (Abs(arg1.v - arg2.v) * 100 < Scale))

----------------------------------------------------------------------------
(* validate() applied to two extractions with the same content, and to two   *)
(* extractions that differ in one field of the overall result               *)

\* overall results the extractors read: consistent; net_score off
\* total_correct - total_wrong / 4; none; total_blank None; no net_score
BaseOveralls ==
    {GoodOverall,
     [GoodOverall EXCEPT !.total_correct = Whole(40)],
     NoScores,
     [GoodOverall EXCEPT !.total_blank = NoneV],
     [GoodOverall EXCEPT !.net_score = Absent]}

\* what the PDF says, as both extractors would read it
Contents ==
    [student : [name : {Str(Ali), Absent}, school : {Str(Can)}],
     overall : BaseOveralls,
     subjects : {<<>>, GoodClaudeRecord.subjects},
     booklet_type : {Str(<<"A">>), Absent}]

\* extracted_data of that content
ClaudeOf(content) ==
    [student |-> content.student, overall_result |-> content.overall,
     subjects |-> content.subjects, exam |-> [booklet_type |-> content.booklet_type]]
\* local_data of that content
LocalOf(content) ==
    [student_info |-> content.student, overall_scores |-> content.overall,
     subject_scores |-> content.subjects, metadata |-> [booklet_type |-> content.booklet_type]]

\* what one extractor reads in the field the extractors disagree about
MisreadValues ==
    {Whole(88), Whole(19), Whole(40), Whole(60), Num(5), NoneV, Absent, BadStr}

InitP ==
    /\ \E content \in Contents, field \in {OverallFields[i] : i \in 1..Len(OverallFields)},
          x \in MisreadValues, side \in {"claude", "local", "neither"} :
          /\ claude_data = IF side = "claude"
                           THEN [ClaudeOf(content) EXCEPT !.overall_result[field] = x]
                           ELSE ClaudeOf(content)
          /\ local_data = IF side = "local"
                          THEN [LocalOf(content) EXCEPT !.overall_scores[field] = x]
                          ELSE LocalOf(content)
    /\ outcome = NotCalled
    /\ IdleRest
    /\ IdleDb
    /\ IdleNumeric
    /\ IdleService

NextP == ValidateCall

SpecP == InitP /\ [][NextP]_vars

\* the two records carry the same value in every compared field
IdenticalRecords ==
    /\ claude_data.student = local_data.student_info
    /\ claude_data.overall_result = local_data.overall_scores
    /\ claude_data.subjects = local_data.subject_scores
    /\ claude_data.exam = local_data.metadata

\* every field of the overall result is a number, None or absent
WellFormed(scores) ==
    \A i \in 1..Len(OverallFields) : scores[OverallFields[i]].t \in {"num", "none", "absent"}

\* total_correct, total_wrong and net_score are numbers, unless one of the
\* three keys is missing
NetTripleNumbers(scores) ==
    (/\ scores.total_correct.t # "absent"
     /\ scores.total_wrong.t # "absent"
     /\ scores.net_score.t # "absent") =>
        (/\ scores.total_correct.t = "num"
         /\ scores.total_wrong.t = "num"
         /\ scores.net_score.t = "num")

PassedWithoutIssues == Returned /\ Report.status = "passed" /\ Report.issues = <<>>

FartherThan(a, b, tolPct) ==
    /\ a.t = "num"
    /\ b.t = "num"
    /\ Abs(a.v - b.v) * 2 * 100 > tolPct * (Abs(a.v) + Abs(b.v))

\* the two records differ only in total_correct, by more than the tolerance
DifferOnlyInTotalCorrect ==
    /\ claude_data.student = local_data.student_info
    /\ claude_data.subjects = local_data.subject_scores
    /\ claude_data.exam = local_data.metadata
    /\ \A i \in 1..Len(OverallFields) :
          OverallFields[i] # "total_correct" =>
              claude_data.overall_result[OverallFields[i]]
                  = local_data.overall_scores[OverallFields[i]]
    /\ FartherThan(claude_data.overall_result.total_correct,
                   local_data.overall_scores.total_correct, TolerancePct)

C20_RelativeBranch ==
    Returned =>
        \A i \in 1..Len(OverallFields) :
            LET a == claude_data.overall_result[OverallFields[i]]
                b == local_data.overall_scores[OverallFields[i]]
            IN  (/\ a.t = "num"
                 /\ b.t = "num"
                 /\ a.v # b.v
                 /\ (Abs(a.v) + Abs(b.v)) * 100 >= 2 * Scale) =>
                    (~HasIssueAt(<<"overall", OverallFields[i]>>)
                        <=> ~FartherThan(a, b, TolerancePct))

\* C20 witness: baseline total_questions 90, primary 88, and no issue at
\* overall.total_questions
C20_Witness ==
    /\ Returned
    /\ local_data.overall_scores.total_questions = Whole(90)
    /\ claude_data.overall_result.total_questions = Whole(88)
    /\ ~HasIssueAt(<<"overall", "total_questions">>)

\* the numeric-match rule, for two values at the default tolerance: numbers
\* that are equal, or less than 0.01 apart when their mean magnitude is below
\* 0.01, or at most 10% of their mean magnitude apart otherwise
RuleMatch(a, b) ==
    /\ a.t = "num"
    /\ b.t = "num"
    /\ \/ a.v = b.v
       \/ IF (Abs(a.v) + Abs(b.v)) * 100 < 2 * Scale
          THEN Abs(a.v - b.v) * 100 < Scale
          ELSE ~FartherThan(a, b, TolerancePct)

\* the issues of the report at that field
IssuesAt(field) == {i \in 1..Len(Report.issues) : Report.issues[i].field = field}

\* C21: for each field of the overall result that both records give (not
\* None) and that fails the numeric-match rule, the report has exactly one
\* issue at overall.<field>, an error for total_questions and total_correct
\* and a warning for total_wrong, total_blank and net_score.
C21_OverallSeverity ==
    Returned =>
        \A k \in 1..Len(OverallFields) :
            LET field == OverallFields[k]
                a == claude_data.overall_result[field]
                b == local_data.overall_scores[field]
            IN  (~Missing(a) /\ ~Missing(b) /\ ~RuleMatch(a, b)) =>
                    /\ Cardinality(IssuesAt(<<"overall", field>>)) = 1
                    /\ \A i \in IssuesAt(<<"overall", field>>) :
                          Report.issues[i].severity =
                              IF field \in {"total_questions", "total_correct"}
                              THEN "error" ELSE "warning"

\* C21 witness: a report with an error at overall.total_correct, and one with
\* a warning at overall.total_blank
C21_Witness ==
    /\ Returned
    /\ \/ HasIssue(<<"overall", "total_correct">>, "error")
       \/ HasIssue(<<"overall", "total_blank">>, "warning")
    /\ ~HasIssueAt(<<"overall", "net_calculation">>)

\* the names of the subjects of a list
SubjectNames(subjects) == {subjects[j].subject_name : j \in 1..Len(subjects)}

\* C22: the per-subject comparison reports only on subjects that both records
\* have: every issue of the report at subject.* is a warning at
\* subject.<name>.<field> for a subject name of both records and a field of
\* the per-subject comparison, so a subject that only one record has
\* contributes no issue.
C22_SubjectsOfBothRecordsOnly ==
    Returned =>
        \A i \in 1..Len(Report.issues) :
            LET issue == Report.issues[i]
            IN  issue.field[1] = "subject" =>
                    /\ Len(issue.field) = 3
                    /\ issue.field[2] \in SubjectNames(claude_data.subjects)
                                          \cap SubjectNames(local_data.subject_scores)
                    /\ \E k \in 1..Len(SubjectFields) : issue.field[3] = SubjectFields[k]
                    /\ issue.severity = "warning"

\* C22 witness: Matematik is in both records with different correct counts and
\* the report warns at subject.Matematik.correct
C22_Witness ==
    /\ Returned
    /\ "Matematik" \in SubjectNames(local_data.subject_scores)
    /\ HasIssue(<<"subject", "Matematik", "correct">>, "warning")

\* the primary record has Matematik, the local record has only Fizik, and the
\* report has no issue on a subject
C22_OneSidedSubject ==
    /\ Returned
    /\ SubjectNames(local_data.subject_scores) = {"Fizik"}
    /\ \A i \in 1..Len(Report.issues) : Report.issues[i].field[1] # "subject"

----------------------------------------------------------------------------
(* validate() applied to two extractions that differ in the student's name  *)
(* and school only                                                          *)

Alix == <<"a", "l", "i", "x">>
Ilay == <<"i", "l", "a", "y">>
Alimx == <<"a", "l", "i", "m", "x">>
Milay == <<"m", "i", "l", "a", "y">>

\* names and schools as the AI extractor may give them: no key, None, the
\* empty string, a blank, and strings that are equal to, inside of, close to
\* and far from one another
ClaudeStrings ==
    {Absent, NoneV, Str(<<>>), Str(<<" ">>), Str(Ali), Str(AliShouted), Str(Alim),
     Str(Can), Str(Alix), Str(Ilay), Str(Alimx), Str(Milay)}
\* the same as the local parser may give them (it stores no None)
LocalStrings == ClaudeStrings \ {NoneV}

\* the rest of the record, the same on both sides
IdentityContent ==
    [student |-> [name |-> Str(Ali), school |-> Str(Can)],
     overall |-> GoodOverall,
     subjects |-> GoodClaudeRecord.subjects,
     booklet_type |-> Str(<<"A">>)]

InitI ==
    /\ \E cn \in ClaudeStrings, cs \in ClaudeStrings,
          ln \in LocalStrings, ls \in LocalStrings :
          /\ claude_data = [ClaudeOf(IdentityContent) EXCEPT
                                !.student = [name |-> cn, school |-> cs]]
          /\ local_data = [LocalOf(IdentityContent) EXCEPT
                                !.student_info = [name |-> ln, school |-> ls]]
    /\ outcome = NotCalled
    /\ IdleRest
    /\ IdleDb
    /\ IdleNumeric
    /\ IdleService

NextI == ValidateCall

SpecI == InitI /\ [][NextI]_vars

\* the identity rule for two strings: equal after lowercasing and trimming, or
\* one inside the other, or the characters of the first that occur in the
\* second being at least thresholdPct percent of the longer length
IdentityRule(a, b, thresholdPct) ==
    LET s1 == Strip(Lower(a))
        s2 == Strip(Lower(b))
    IN  \/ s1 = s2
        \/ IsSubstring(s1, s2)
        \/ IsSubstring(s2, s1)
        \/ CommonChars(s1, s2) * 100 >= thresholdPct * Max(Len(s1), Len(s2))

NonBlank(x) == x.t = "str" /\ Strip(x.s) # <<>>

\* the report has no issue at the field when the rule holds of the two
\* strings, and exactly one, of the given severity, when it does not
IdentityOutcome(a, b, thresholdPct, field, severity) ==
    IF IdentityRule(a.s, b.s, thresholdPct)
    THEN IssuesAt(field) = {}
    ELSE /\ Cardinality(IssuesAt(field)) = 1
         /\ \A i \in IssuesAt(field) : Report.issues[i].severity = severity

----------------------------------------------------------------------------
(* Two confirm_exam requests at once *)

\* the number of confirm_exam handlers running at once
ConcurrentConfirms == 2

\* as Init, with two request slots
InitC ==
    /\ claude_data = NoScores
    /\ local_data = NoScores
    /\ outcome = NotCalled
    /\ IdleRest
    /\ \E pre \in [PreExisting -> PendingExams] :
          exams = [e \in PreExisting |-> [pre[e] EXCEPT !.pdf_path = e]]
    /\ rows = [e \in PreExisting |-> NoRows]
    /\ students = {}
    /\ files = PreExisting
    /\ nextId = Cardinality(PreExisting) + 1
    /\ now = 0
    /\ req = [r \in 1..ConcurrentConfirms |-> IdleReq]
    /\ sweep = IdleSweep
    /\ lastUpload = NoUpload
    /\ IdleNumeric
    /\ IdleService

SpecC == InitC /\ [][Next]_vars

\* C24: whatever two concurrent confirm_exam requests do, every exam has at
\* most one ExamResult row and normalized rows built from one source only,
\* and the rows of an exam confirmed from a stored document are the rows of
\* that one document.
C24_OneMaterialization ==
    \A e \in DOMAIN rows :
        /\ rows[e].exam_result <= 1
        /\ Cardinality(rows[e].sources) <= 1
        /\ \A s \in rows[e].sources :
              (e \in DOMAIN exams /\ ChosenData(e, s).json = "normalized") =>
                  /\ rows[e].subject_results = ChosenData(e, s).subjects
                  /\ rows[e].learning_outcomes = ChosenData(e, s).learning_outcomes
                  /\ rows[e].questions = ChosenData(e, s).questions

\* C24 witness: two requests held the same pending exam at once; one was
\* answered 200 and the other failed on the unique index, and the exam has
\* one ExamResult
C24_Witness ==
    /\ \E r \in Reqs, q \in Reqs :
          /\ req[r].response = "200 confirmed"
          /\ req[q].response = "500 integrity error"
    /\ \E e \in DOMAIN rows : rows[e].exam_result = 1 /\ exams[e].status = "confirmed"

----------------------------------------------------------------------------
(* LearningOutcomeCleanupService: perform_merge and undo_merge *)

MaxOutcomes == 3
MaxRecords == 2

OutcomeIds == 1..MaxOutcomes
\* merge_group_id is whatever the request carries
GroupIds == {"g1", "g2"}
NullId == 0

\* (total_acquired / total_questions) * 100, in hundredths as Numeric(5, 2)
SuccessRate(acquired, total_questions) ==
    IF total_questions > 0 THEN (acquired * 10000) \div total_questions ELSE 0

\* the learning outcomes of the confirmed exams, none merged
Outcomes0 ==
    [o \in OutcomeIds |->
        [outcome_description |-> <<"outcome", o>>,
         total_questions |-> o + 1,
         acquired |-> o,
         lost |-> 1,
         success_rate |-> SuccessRate(o, o + 1),
         is_merged |-> 0,
         merged_into_id |-> NullId]]

\* sum(f[x] for x in S)
RECURSIVE SumOver(_, _)
SumOver(f, S) ==
    IF S = {} THEN 0
    ELSE LET x == CHOOSE y \in S : TRUE
         IN  f[x] + SumOver(f, S \ {x})

\* the snapshot an audit row keeps of an outcome
Snapshot(o) ==
    [outcome_description |-> outcomes[o].outcome_description,
     total_questions |-> outcomes[o].total_questions,
     acquired |-> outcomes[o].acquired,
     lost |-> outcomes[o].lost,
     success_rate |-> outcomes[o].success_rate]

\* the outcomes the query of _merge_outcome_group returns
Fetched(outcome_ids) ==
    {o \in outcome_ids \cap DOMAIN outcomes : outcomes[o].is_merged = 0}

\* a set as a list, in ascending order
RECURSIVE Ascending(_)
Ascending(S) ==
    IF S = {} THEN <<>>
    ELSE LET x == CHOOSE y \in S : \A z \in S : y <= z
         IN  <<x>> \o Ascending(S \ {x})

\* the learning_outcomes table after _merge_outcome_group
MergedOutcomes(fetched, target, suggested_name) ==
    LET total_questions == SumOver([o \in fetched |-> outcomes[o].total_questions], fetched)
        total_acquired == SumOver([o \in fetched |-> outcomes[o].acquired], fetched)
        total_lost == SumOver([o \in fetched |-> outcomes[o].lost], fetched)
    IN  [o \in DOMAIN outcomes |->
            IF o = target
            THEN [outcomes[o] EXCEPT
                    !.outcome_description =
                        IF suggested_name = "absent" THEN @ ELSE <<suggested_name>>,
                    !.total_questions = total_questions,
                    !.acquired = total_acquired,
                    !.lost = total_lost,
                    !.success_rate = SuccessRate(total_acquired, total_questions)]
            ELSE IF o \in fetched
            THEN [outcomes[o] EXCEPT !.is_merged = 1, !.merged_into_id = target]
            ELSE outcomes[o]]

\* the audit rows _merge_outcome_group adds, one for each outcome merged away
AuditRows(merge_group_id, fetched, target) ==
    LET others == Ascending(fetched \ {target})
    IN  [i \in 1..Len(others) |->
            [merge_group_id |-> merge_group_id,
             original_outcome_id |-> others[i],
             target_outcome_id |-> target,
             original_data |-> Snapshot(others[i]),
             target_data_before |-> Snapshot(target),
             undone |-> FALSE]]

\* perform_merge([group]): the query returns the unmerged outcomes of the
\* group in no stated order, and the first of them is the target
PerformMerge(merge_group_id, outcome_ids, suggested_name, target) ==
    LET fetched == Fetched(outcome_ids)
        success == Cardinality(outcome_ids) >= 2 /\ Cardinality(fetched) >= 2
    IN  /\ outcomes # <<>>
        /\ target \in outcome_ids
        /\ success => target \in fetched
        /\ ~success => \A o \in outcome_ids : target <= o
        /\ success => Len(history) + Cardinality(fetched) - 1 <= MaxRecords
        /\ premerge' = outcomes
        /\ outcomes' = IF success THEN MergedOutcomes(fetched, target, suggested_name)
                       ELSE outcomes
        /\ history' = IF success THEN history \o AuditRows(merge_group_id, fetched, target)
                      ELSE history
        /\ merge_last' =
              IF success
              THEN [op |-> "perform_merge", group_id |-> merge_group_id, success |-> TRUE,
                    target_id |-> target, merged_ids |-> fetched \ {target}]
              ELSE [op |-> "perform_merge", group_id |-> merge_group_id, success |-> FALSE,
                    target_id |-> NullId, merged_ids |-> {}]
        /\ UNCHANGED <<corevars, pvars, rvars, cvars>>

\* the rows the query of undo_merge returns
MergeRecords(merge_group_id) ==
    {i \in 1..Len(history) :
        history[i].merge_group_id = merge_group_id /\ ~history[i].undone}

\* the learning_outcomes table after the loop of undo_merge over the rows
RestoredOutcomes(records) ==
    [o \in DOMAIN outcomes |->
        IF outcomes[o].is_merged = 1 /\ \E i \in records : history[i].original_outcome_id = o
        THEN LET i == CHOOSE j \in records : history[j].original_outcome_id = o
                 original == history[i].original_data
             IN  [outcomes[o] EXCEPT
                     !.outcome_description = original.outcome_description,
                     !.total_questions = original.total_questions,
                     !.acquired = original.acquired,
                     !.lost = original.lost,
                     !.success_rate = original.success_rate,
                     !.is_merged = 0,
                     !.merged_into_id = NullId]
        ELSE outcomes[o]]

\* undo_merge(merge_group_id): first is the row the query returns first, the
\* only one whose target is put back
UndoMerge(merge_group_id, first) ==
    LET records == MergeRecords(merge_group_id)
    IN  /\ outcomes # <<>>
        /\ IF records = {}
           THEN /\ first = 0
                /\ merge_last' = [op |-> "undo_merge", group_id |-> merge_group_id,
                                  success |-> FALSE, restored_count |-> 0]
                /\ UNCHANGED <<outcomes, history>>
           ELSE /\ first \in records
                /\ LET restored == RestoredOutcomes(records)
                       target == history[first].target_outcome_id
                       target_before == history[first].target_data_before
                   IN  /\ outcomes' = [restored EXCEPT ![target] =
                                [@ EXCEPT
                                   !.outcome_description = target_before.outcome_description,
                                   !.total_questions = target_before.total_questions,
                                   !.acquired = target_before.acquired,
                                   !.lost = target_before.lost,
                                   !.success_rate = target_before.success_rate]]
                       /\ merge_last' =
                             [op |-> "undo_merge", group_id |-> merge_group_id,
                              success |-> TRUE,
                              restored_count |-> Cardinality({o \in DOMAIN outcomes :
                                  restored[o].is_merged # outcomes[o].is_merged})]
                /\ history' = [i \in 1..Len(history) |->
                                  IF i \in records THEN [history[i] EXCEPT !.undone = TRUE]
                                  ELSE history[i]]
        /\ UNCHANGED premerge
        /\ UNCHANGED <<corevars, pvars, rvars, cvars>>

InitM ==
    /\ claude_data = NoScores
    /\ local_data = NoScores
    /\ outcome = NotCalled
    /\ IdleDb
    /\ IdleNumeric
    /\ IdleService
    /\ IdlePlan
    /\ IdleResources
    /\ IdleRecommendations
    /\ outcomes = Outcomes0
    /\ history = <<>>
    /\ merge_last = NoCall
    /\ premerge = Outcomes0

NextM ==
    \/ \E g \in GroupIds, ids \in SUBSET OutcomeIds, name \in {"absent", "merged"},
          target \in OutcomeIds : PerformMerge(g, ids, name, target)
    \/ \E g \in GroupIds, first \in 0..MaxRecords : UndoMerge(g, first)

SpecM == InitM /\ [][NextM]_vars

\* the outcomes that are not merged into another
ActiveOutcomes(table) == {o \in DOMAIN table : table[o].is_merged = 0}

\* C25: a perform_merge that merges a group, followed at once by undo_merge of
\* the same merge_group_id, leaves every outcome of the group (the target and
\* the merged ones) with the outcome_description, total_questions, acquired
\* and lost it had before the merge, with is_merged = 0 and no merged_into_id.
C25_MergeUndoRoundTrip ==
    [][(/\ merge_last.op = "perform_merge"
        /\ merge_last.success
        /\ merge_last'.op = "undo_merge"
        /\ merge_last'.group_id = merge_last.group_id) =>
            \A o \in {merge_last.target_id} \cup merge_last.merged_ids :
                /\ outcomes'[o].outcome_description = premerge[o].outcome_description
                /\ outcomes'[o].total_questions = premerge[o].total_questions
                /\ outcomes'[o].acquired = premerge[o].acquired
                /\ outcomes'[o].lost = premerge[o].lost
                /\ outcomes'[o].is_merged = 0
                /\ outcomes'[o].merged_into_id = NullId]_vars

\* C26: whatever perform_merge and undo_merge calls were made, the sums of
\* total_questions, acquired and lost over the outcomes that are not merged
\* are the sums over all outcomes before the first merge.
C26_SumsConserved ==
    outcomes # <<>> =>
        LET active == ActiveOutcomes(outcomes)
        IN  /\ SumOver([o \in active |-> outcomes[o].total_questions], active)
                 = SumOver([o \in OutcomeIds |-> Outcomes0[o].total_questions], OutcomeIds)
            /\ SumOver([o \in active |-> outcomes[o].acquired], active)
                 = SumOver([o \in OutcomeIds |-> Outcomes0[o].acquired], OutcomeIds)
            /\ SumOver([o \in active |-> outcomes[o].lost], active)
                 = SumOver([o \in OutcomeIds |-> Outcomes0[o].lost], OutcomeIds)

----------------------------------------------------------------------------
(* StudyPlanService: update_item_completion *)

MaxPlanDays == 2
MaxPlanItems == 3
MaxPlanCalls == 3

PlanDayIds == 1..MaxPlanDays
PlanItemIds == 1..MaxPlanItems

\* the days and items generate_study_plan stores: every day and every item
\* not completed; a day the schedule gives no item (a rest day) has none
NewPlanDay == [completed |-> FALSE]
NewPlanItem(day_id) == [day_id |-> day_id, completed |-> FALSE, completed_at |-> NullTime]

\* the items of a day
ItemsOfDay(items, day_id) == {i \in DOMAIN items : items[i].day_id = day_id}

\* update_item_completion(item_id, completed)
UpdateItemCompletion(item_id, completed) ==
    /\ plan_days # <<>>
    /\ plan_clock < MaxPlanCalls
    /\ plan_clock' = plan_clock + 1
    /\ IF item_id \notin DOMAIN plan_items
       THEN /\ plan_last' = [op |-> "update_item_completion", result |-> FALSE]
            /\ UNCHANGED <<plan_days, plan_items>>
       ELSE LET items == [plan_items EXCEPT
                             ![item_id].completed = completed,
                             ![item_id].completed_at =
                                 IF completed THEN plan_clock' ELSE NullTime]
                day_id == plan_items[item_id].day_id
            IN  /\ plan_items' = items
                /\ plan_days' =
                      IF day_id \in DOMAIN plan_days
                      THEN [plan_days EXCEPT ![day_id].completed =
                              \A i \in ItemsOfDay(items, day_id) : items[i].completed]
                      ELSE plan_days
                /\ plan_last' = [op |-> "update_item_completion", result |-> TRUE]
    /\ UNCHANGED <<corevars, mvars, rvars, cvars>>

InitD ==
    /\ claude_data = NoScores
    /\ local_data = NoScores
    /\ outcome = NotCalled
    /\ IdleDb
    /\ IdleNumeric
    /\ IdleService
    /\ IdleMerge
    /\ IdleResources
    /\ IdleRecommendations
    /\ plan_days = [d \in PlanDayIds |-> NewPlanDay]
    /\ \E schedule \in [PlanItemIds -> PlanDayIds] :
          plan_items = [i \in PlanItemIds |-> NewPlanItem(schedule[i])]
    /\ plan_last = NoCall
    /\ plan_clock = 0

NextD ==
    \E item_id \in PlanItemIds \cup {0}, completed \in BOOLEAN :
        UpdateItemCompletion(item_id, completed)

SpecD == InitD /\ [][NextD]_vars

\* C27: once update_item_completion has been called, a day is marked completed
\* exactly when each of its items is completed, and an item has a
\* completed_at exactly when it is completed.
C27_DayCompletedIffAllItems ==
    plan_last.op = "update_item_completion" =>
        /\ \A d \in DOMAIN plan_days :
              plan_days[d].completed <=>
                  \A i \in ItemsOfDay(plan_items, d) : plan_items[i].completed
        /\ \A i \in DOMAIN plan_items :
              (plan_items[i].completed_at # NullTime) <=> plan_items[i].completed


\* ---------------------------------------------------------------------
\* ResourceService: resources, their recommendation links, the blacklist
\* ---------------------------------------------------------------------

\* the video urls the searches and the curator can return
Urls == {"u1", "u2", "u3"}

\* the recommendations table as ResourceService reads it
RecommendationIds == {"r1"}

\* the recommendation ids a caller can pass: a stored one and an unknown one
CallRecommendationIds == {"r1", "r0"}

\* the resource ids a caller can pass: one per url that can be stored
ResourceIds == 1..Cardinality(Urls)

\* what a search or the curator returns: up to two distinct urls, in order
VideoLists ==
    {<<>>} \cup {<<u>> : u \in Urls}
           \cup {p \in Urls \X Urls : p[1] # p[2]}

\* Resource.url == url ... .first() is not None
HasUrl(table, url) == \E i \in DOMAIN table : table[i].url = url

\* the id of the row Resource.url == url ... .first() returns
IdOfUrl(table, url) == CHOOSE i \in DOMAIN table : table[i].url = url

\* Resource(...); db.add(resource): the row of a new resource. The mapped
\* class has no is_pinned attribute, the insert leaves the column to its
\* server default
NewResource(url) == [url |-> url, is_pinned |-> FALSE]

\* the loop "existing by url, else create" of get_or_create_youtube_resources
\* and _create_resource_from_video, over the videos
RECURSIVE CreateResources(_, _)
CreateResources(table, videos) ==
    IF videos = <<>> THEN table
    ELSE CreateResources(
            IF HasUrl(table, Head(videos)) THEN table
            ELSE Append(table, NewResource(Head(videos))),
            Tail(videos))

\* the ids of the rows returned for the videos
IdsOfVideos(table, videos) ==
    {IdOfUrl(table, videos[i]) : i \in DOMAIN videos}

\* filter_blacklisted_urls / _filter_videos, with the exclude list
FilterVideos(videos, exclude_urls) ==
    SelectSeq(videos, LAMBDA u : u \notin blacklist /\ u \notin exclude_urls)

\* the links table after link_resources_to_recommendation: an unknown
\* recommendation returns False before anything is written, else the
\* recommendation's links are replaced by links to the stored ids
LinkedTo(table, recommendation_id, resource_ids) ==
    IF recommendation_id \notin RecommendationIds THEN res_links
    ELSE {l \in res_links : l[1] # recommendation_id}
         \cup {<<recommendation_id, i>> : i \in resource_ids \cap DOMAIN table}

\* the route POST /{id}/resources/link
LinkResourcesToRecommendation(recommendation_id, resource_ids) ==
    /\ res_links' = LinkedTo(resources, recommendation_id, resource_ids)
    /\ res_last' = [op |-> "link_resources_to_recommendation",
                    result |-> IF recommendation_id \in RecommendationIds
                               THEN "True" ELSE "False"]
    /\ UNCHANGED <<resources, blacklist>>
    /\ UNCHANGED <<corevars, mvars, pvars, cvars>>

\* auto_link_resources(recommendation_id, subject, topic, count): the
\* rows are served from the table when it holds count of them (cached is
\* what limit(count).all() returns), else videos is the YouTube search
\* result and every url not stored yet is created; no blacklist is read
AutoLinkResources(recommendation_id, count, videos, cached) ==
    LET fromTable == Len(resources) >= count
        table == IF fromTable THEN resources
                 ELSE CreateResources(resources, videos)
        ids == IF fromTable THEN cached ELSE IdsOfVideos(table, videos)
    IN  /\ IF fromTable
           THEN /\ videos = <<>>
                /\ cached \subseteq DOMAIN resources
                /\ Cardinality(cached) = count
           ELSE /\ cached = {}
                /\ Len(videos) <= count
        /\ resources' = table
        /\ res_links' = IF ids = {} THEN res_links
                        ELSE LinkedTo(table, recommendation_id, ids)
        /\ res_last' = [op |-> "auto_link_resources", result |-> ids]
        /\ UNCHANGED blacklist
        /\ UNCHANGED <<corevars, mvars, pvars, cvars>>

\* curate_resources(recommendation_id, exclude_urls): an unknown
\* recommendation gives the empty answer; for a stored one the read of
\* rec.learning_outcome_ids, a column the mapped class Recommendation
\* does not declare, raises AttributeError before the curator is asked
CurateResources(recommendation_id) ==
    /\ res_last' = [op |-> "curate_resources",
                    result |-> IF recommendation_id \notin RecommendationIds
                               THEN {} ELSE "AttributeError"]
    /\ UNCHANGED <<resources, res_links, blacklist>>
    /\ UNCHANGED <<corevars, mvars, pvars, cvars>>

\* curate_resources_for_study_item(study_plan_item_id, exclude_urls):
\* for an item that names no recommendation; videos are the scored
\* videos of the trusted channels (score >= 55)
CurateResourcesForStudyItem(videos, exclude_urls) ==
    LET kept == FilterVideos(videos, exclude_urls)
        table == CreateResources(resources, kept)
    IN  /\ resources' = table
        /\ res_last' = [op |-> "curate_resources_for_study_item",
                        result |-> IdsOfVideos(table, kept)]
        /\ UNCHANGED <<res_links, blacklist>>
        /\ UNCHANGED <<corevars, mvars, pvars, cvars>>

\* what resource.is_pinned evaluates to on a loaded Resource: the mapped
\* class declares no such column, the read raises AttributeError
IsPinned(resource) == "AttributeError"

\* both delete functions up to the pin guard: False for an unknown id,
\* else what the read of is_pinned gives; the statements after the guard
\* are never reached
DeleteGuard(resource_id) ==
    IF resource_id \notin DOMAIN resources THEN "False"
    ELSE IsPinned(resources[resource_id])

\* delete_and_blacklist_resource(resource_id, reason): no stored row gets
\* past the guard, so neither the blacklist entry nor the deletions run
DeleteAndBlacklistResource(resource_id) ==
    /\ res_last' = [op |-> "delete_and_blacklist_resource",
                    resource_id |-> resource_id,
                    result |-> DeleteGuard(resource_id)]
    /\ UNCHANGED <<resources, res_links, blacklist>>
    /\ UNCHANGED <<corevars, mvars, pvars, cvars>>

\* delete_resource_only(resource_id)
DeleteResourceOnly(resource_id) ==
    /\ res_last' = [op |-> "delete_resource_only",
                    resource_id |-> resource_id,
                    result |-> DeleteGuard(resource_id)]
    /\ UNCHANGED <<resources, res_links, blacklist>>
    /\ UNCHANGED <<corevars, mvars, pvars, cvars>>

\* toggle_pin_resource(resource_id): the read of is_pinned raises inside
\* the try, the handler rolls back and returns None
TogglePinResource(resource_id) ==
    /\ res_last' = [op |-> "toggle_pin_resource",
                    resource_id |-> resource_id, result |-> "None"]
    /\ UNCHANGED <<resources, res_links, blacklist>>
    /\ UNCHANGED <<corevars, mvars, pvars, cvars>>

\* The tables as an earlier run left them: one stored resource, whose
\* is_pinned column is set or not, linked or not, and a blacklist that
\* holds no stored url
InitR ==
    /\ claude_data = NoScores
    /\ local_data = NoScores
    /\ outcome = NotCalled
    /\ IdleDb
    /\ IdleNumeric
    /\ IdleService
    /\ IdleMerge
    /\ IdlePlan
    /\ IdleRecommendations
    /\ \E pinned \in BOOLEAN :
           resources = <<[url |-> "u1", is_pinned |-> pinned]>>
    /\ res_links \in {{}, {<<"r1", 1>>}}
    /\ blacklist \in {{}, {"u2"}}
    /\ res_last = NoCall

NextR ==
    \/ \E r \in CallRecommendationIds, ids \in SUBSET ResourceIds :
           LinkResourcesToRecommendation(r, ids)
    \/ \E r \in CallRecommendationIds, count \in 1..2,
          videos \in VideoLists, cached \in SUBSET ResourceIds :
           AutoLinkResources(r, count, videos, cached)
    \/ \E r \in CallRecommendationIds : CurateResources(r)
    \/ \E videos \in VideoLists, exclude_urls \in {{}, {"u3"}} :
           CurateResourcesForStudyItem(videos, exclude_urls)
    \/ \E i \in ResourceIds : DeleteAndBlacklistResource(i)
    \/ \E i \in ResourceIds : DeleteResourceOnly(i)
    \/ \E i \in ResourceIds : TogglePinResource(i)

SpecR == InitR /\ [][NextR]_vars

RecSubjects == {"Matematik", "Fizik"}
PatternTypes == {"weak_subject", "declining_trend"}

\* a detected pattern, as far as the comparison reads it
PatternSet == [type : PatternTypes, subject_name : RecSubjects]

\* what _detect_patterns returns: up to two different patterns, in order
PatternLists ==
    {<<>>} \cup {<<p>> : p \in PatternSet}
           \cup {q \in PatternSet \X PatternSet : q[1] # q[2]}

\* the stored recommendations: rows of the mapped columns the calls read
\* and write. status, last_confirmed_at, previous_recommendation_id and
\* learning_outcome_ids are no columns of the mapped class
RecIds == 1..4
Recs0 ==
    <<[subject_name |-> "Matematik", issue_type |-> "weak_subject"],
      [subject_name |-> "Matematik", issue_type |-> "declining_trend"],
      [subject_name |-> "Fizik", issue_type |-> "declining_trend"],
      [subject_name |-> "Fizik", issue_type |-> "declining_trend"]>>

\* _check_if_data_changed: True for weak_subject, False for the rest
CheckIfDataChanged(pattern) == pattern.type = "weak_subject"

\* existing_recs: the active rows
ExistingRecs == {r \in DOMAIN recs : recs[r].is_active}

\* the rows a pattern matches: same subject and same issue type
Candidates(pattern) ==
    {r \in ExistingRecs :
        /\ recs[r].subject_name = pattern.subject_name
        /\ recs[r].issue_type = pattern.type}

\* _compare_recommendations(patterns, existing_recs). All candidates of
\* a pattern score alike, best_match is the first of them in the order
\* the query returned, which the query leaves open: first[p] is that row
CompareRecommendations(patterns, first) ==
    LET idx == DOMAIN patterns
        hit == {i \in idx : Candidates(patterns[i]) # {}}
        upd == {i \in hit : CheckIfDataChanged(patterns[i])}
    IN  [new_patterns      |-> idx \ hit,
         updated_patterns  |-> upd,
         confirmed_rec_ids |-> {first[patterns[i]] : i \in hit \ upd},
         resolved_rec_ids  |-> ExistingRecs \
                                  {first[patterns[i]] : i \in hit}]

\* the status the call sets on the loaded objects before it creates the
\* new rows: 'resolved' (with is_active False) and 'active'
MarkedBeforeCreate(cmp) ==
    [r \in DOMAIN recs |->
        IF r \in cmp.resolved_rec_ids THEN "resolved"
        ELSE IF r \in cmp.confirmed_rec_ids THEN "active"
        ELSE "untouched"]

\* generate_recommendations(student_id): answer is the number of
\* recommendations _generate_ai_recommendations returns for the new and
\* updated patterns. With an answer the first Recommendation(...,
\* learning_outcome_ids=, status=, previous_recommendation_id=) raises
\* TypeError before the commit, and the request's session is rolled back
GenerateRecommendations(patterns, first, answer) ==
    LET cmp == CompareRecommendations(patterns, first)
        for_ai == cmp.new_patterns \cup cmp.updated_patterns
    IN  /\ \A p \in PatternSet :
              IF Candidates(p) = {} THEN first[p] = 1
              ELSE first[p] \in Candidates(p)
        /\ IF for_ai = {} THEN answer = 0 ELSE answer \in 0..1
        /\ IF answer > 0
           THEN /\ rec_last' = [op |-> "generate_recommendations",
                                result |-> "TypeError",
                                was_active |-> ExistingRecs,
                                marked |-> MarkedBeforeCreate(cmp)]
                /\ UNCHANGED recs
           ELSE /\ recs' = [r \in DOMAIN recs |->
                              IF r \in cmp.resolved_rec_ids
                              THEN [recs[r] EXCEPT !.is_active = FALSE]
                              ELSE recs[r]]
                /\ rec_last' = [op |-> "generate_recommendations",
                                result |-> "ok",
                                was_active |-> ExistingRecs,
                                marked |-> MarkedBeforeCreate(cmp)]
        /\ UNCHANGED <<corevars, mvars, pvars, rvars>>

\* mark_as_completed(recommendation_id)
MarkAsCompleted(recommendation_id) ==
    /\ IF recommendation_id \in DOMAIN recs
       THEN recs' = [recs EXCEPT ![recommendation_id].is_active = FALSE]
       ELSE UNCHANGED recs
    /\ rec_last' = [op |-> "mark_as_completed",
                    result |-> recommendation_id \in DOMAIN recs]
    /\ UNCHANGED <<corevars, mvars, pvars, rvars>>

\* The recommendations an earlier run left: four rows, active or not,
\* two of them for the same subject and issue type
InitG ==
    /\ claude_data = NoScores
    /\ local_data = NoScores
    /\ outcome = NotCalled
    /\ IdleDb
    /\ IdleNumeric
    /\ IdleService
    /\ IdleMerge
    /\ IdlePlan
    /\ IdleResources
    /\ \E act \in [RecIds -> BOOLEAN] :
           recs = [r \in RecIds |->
                      [subject_name |-> Recs0[r].subject_name,
                       issue_type |-> Recs0[r].issue_type,
                       is_active |-> act[r]]]
    /\ rec_last = NoCall

NextG ==
    \/ \E patterns \in PatternLists, first \in [PatternSet -> RecIds],
          answer \in 0..1 :
           GenerateRecommendations(patterns, first, answer)
    \/ \E r \in {0} \cup RecIds : MarkAsCompleted(r)

SpecG == InitG /\ [][NextG]_vars

\* the three outcomes of a generate_recommendations call for a row
EndsConfirmed(r) == rec_last.marked[r] = "active" /\ recs[r].is_active
EndsSuperseded(r) == rec_last.marked[r] = "superseded" /\ ~recs[r].is_active
EndsResolved(r) == rec_last.marked[r] = "resolved" /\ ~recs[r].is_active

====
